---- MODULE Spec2Model ----
(***************************************************************************)
(* A model of the GitHub profile analyzer: the fetch wrapper fetchGitHub,  *)
(* the streak computation of fetchContributionStats, the aggregator        *)
(* fetchFullProfileData and the App's handleAnalyze / handleReset.         *)
(*                                                                         *)
(* Four specifications share the module:                                   *)
(*   SpecFetch  calls of fetchGitHub on every modelled HTTP exchange       *)
(*   SpecStats  fetchContributionStats on every modelled statistics        *)
(*              exchange and calendar date                                 *)
(*   Spec       the App: handleAnalyze driving fetchFullProfileData and    *)
(*              analyzeProfile, with the concurrent fetches interleaved    *)
(*   SpecChat   the ChatWidget: opening and closing, the effect that       *)
(*              creates the chat session, and handleSend with its stream   *)
(***************************************************************************)
EXTENDS Integers, Sequences, FiniteSets, TLC

VARIABLES
  calls,        \* SpecFetch: the completed fetchGitHub calls, <<exchange, result>> records
  statsIn,      \* SpecStats: the statistics exchange and today's date given to fetchContributionStats
  statsOut,     \* SpecStats: what fetchContributionStats returned (or that it has not run)
  isOpen,       \* SpecChat: useState(false)
  messages,     \* SpecChat: useState<Message[]>([])
  chatInput,    \* SpecChat: useState(''): `input`, the text of the chat input
  isLoading,    \* SpecChat: useState(false)
  chatSession,  \* SpecChat: useRef<Chat | null>(null), the value of .current
  props,        \* SpecChat: the user and analysis props of the widget
  chatKey,      \* SpecChat: whether process.env.API_KEY is set
  created,      \* SpecChat: how many times ai.chats.create has been called
  sent          \* SpecChat: the handleSend runs so far: message, chunks received, status

fetchVars == <<calls>>
statsVars == <<statsIn, statsOut>>
chatVars == <<isOpen, messages, chatInput, isLoading, chatSession, props, chatKey, created, sent>>

-----------------------------------------------------------------------------
(* Bounds of the model.                                                    *)

\* fetchGitHub calls recorded in one behaviour of SpecFetch
MaxCalls == 2
\* entries in a daily contribution series
MaxDays == 3
\* handleSend runs in one behaviour of SpecChat
MaxSends == 2
\* chunks in one reply stream
MaxChunks == 2

-----------------------------------------------------------------------------
(* Promise outcomes and JavaScript errors.                                 *)

\* new Error(message): the constructor gives every such error the name "Error"
NewError(message) == [name |-> "Error", message |-> message]

\* what fetch() rejects with when no response arrives
NetworkError == [name |-> "TypeError", message |-> "Failed to fetch"]

\* what response.json() rejects with when the body is not JSON
JsonSyntaxError == [name |-> "SyntaxError", message |-> "Unexpected token in JSON"]

Resolved(v) == [settled |-> "resolved", value |-> v]
Rejected(e) == [settled |-> "rejected", error |-> e]

IsResolved(p) == p.settled = "resolved"
IsRejected(p) == p.settled = "rejected"

-----------------------------------------------------------------------------
(* HTTP exchanges.  An exchange is either a network failure (fetch itself  *)
(* rejects) or a response with a status, a status text and a body that     *)
(* either parses as JSON (to body.value) or does not.                      *)

NetFailure == [kind |-> "network"]
Response(status, statusText, body) ==
  [kind |-> "response", status |-> status, statusText |-> statusText, body |-> body]

JsonBody(v) == [json |-> TRUE, value |-> v]
MalformedBody == [json |-> FALSE]

\* Response.ok: the status is in the range 200-299
ResponseOk(r) == r.status >= 200 /\ r.status <= 299

RateLimitMessage == "GitHub API rate limit exceeded. Please try again later or provide a token."
NotFoundMessage == "User or resource not found."
ApiErrorMessage(statusText) == "GitHub API Error: " \o statusText

\* fetchGitHub with the 404 branch folded into the rate-limit branch
FetchGitHub_404AsRateLimit(x) ==
  IF x.kind = "network" THEN Rejected(NetworkError)
  ELSE IF ~ResponseOk(x) THEN
         IF x.status = 403 \/ x.status = 429 \/ x.status = 404
           THEN Rejected(NewError(RateLimitMessage))
           ELSE Rejected(NewError(ApiErrorMessage(x.statusText)))
       ELSE IF x.body.json THEN Resolved(x.body.value)
            ELSE Rejected(JsonSyntaxError)

\* fetchGitHub with the 429 test dropped from the rate-limit branch
FetchGitHub_No429(x) ==
  IF x.kind = "network" THEN Rejected(NetworkError)
  ELSE IF ~ResponseOk(x) THEN
         IF x.status = 403
           THEN Rejected(NewError(RateLimitMessage))
           ELSE IF x.status = 404
                  THEN Rejected(NewError(NotFoundMessage))
                  ELSE Rejected(NewError(ApiErrorMessage(x.statusText)))
       ELSE IF x.body.json THEN Resolved(x.body.value)
            ELSE Rejected(JsonSyntaxError)

\* fetchGitHub: the outcome of the promise it returns, given the exchange
\* that `await fetch(url, { headers })` sees
FetchGitHub(x) ==
  IF x.kind = "network" THEN Rejected(NetworkError)
  ELSE IF ~ResponseOk(x) THEN
         IF x.status = 403 \/ x.status = 429
           THEN Rejected(NewError(RateLimitMessage))
           ELSE IF x.status = 404
                  THEN Rejected(NewError(NotFoundMessage))
                  ELSE Rejected(NewError(ApiErrorMessage(x.statusText)))
       ELSE IF x.body.json THEN Resolved(x.body.value)
            ELSE Rejected(JsonSyntaxError)

-----------------------------------------------------------------------------
(* SpecFetch: fetchGitHub applied to every modelled exchange.              *)

Statuses == {200, 201, 204, 299, 300, 304, 400, 401, 403, 404, 429, 500, 503}
StatusTexts == {"", "Server Error"}
FetchBodies == {MalformedBody, JsonBody("doc")}

FetchExchanges ==
  {NetFailure} \cup
  {Response(s, t, b) : s \in Statuses, t \in StatusTexts, b \in FetchBodies}

FetchInit == calls = <<>>

\* one call of fetchGitHub runs to completion
CallFetchGitHub ==
  /\ Len(calls) < MaxCalls
  /\ \E x \in FetchExchanges :
       calls' = Append(calls, [exchange |-> x, result |-> FetchGitHub(x)])

-----------------------------------------------------------------------------
(* fetchContributionStats.  The statistics API answers                     *)
(*   { total: { "<year>": n, ... }, contributions: [{ date, count }, ...] } *)
(* A date string "YYYY-MM-DD" is modelled by its day number; the parsed    *)
(* body is modelled with the shapes JSON allows for `total` and            *)
(* `contributions`, since the code casts them without looking.             *)

Max(a, b) == IF a >= b THEN a ELSE b

ZeroStats == [totalContributions |-> 0, longestStreak |-> 0, currentStreak |-> 0]

\* new Date(date).getTime() for a date-only ISO string: milliseconds at UTC midnight
GetTime(date) == date * 86400000

\* Array.prototype.sort with the comparator a.date - b.date (a stable sort):
\* insert entry e after the last entry of the sorted s whose time is <= its own
RECURSIVE InsertByDate(_, _)
InsertByDate(s, e) ==
  IF s = <<>> THEN <<e>>
  ELSE IF GetTime(s[Len(s)].date) - GetTime(e.date) > 0
         THEN Append(InsertByDate(SubSeq(s, 1, Len(s) - 1), e), s[Len(s)])
         ELSE Append(s, e)

\* the series left in the order the upstream sent it
SortByDate_NoSort(s) == s

RECURSIVE SortByDate(_)
SortByDate(s) ==
  IF s = <<>> THEN <<>>
  ELSE InsertByDate(SortByDate(SubSeq(s, 1, Len(s) - 1)), s[Len(s)])

\* the forEach loop without the Math.max that follows it
RECURSIVE LongestLoop_NoFinalMax(_, _, _, _)
LongestLoop_NoFinalMax(s, i, longestStreak, tempStreak) ==
  IF i > Len(s) THEN longestStreak
  ELSE IF s[i].count > 0
         THEN LongestLoop_NoFinalMax(s, i + 1, longestStreak, tempStreak + 1)
         ELSE LongestLoop_NoFinalMax(s, i + 1, Max(longestStreak, tempStreak), 0)

\* the forEach loop without tempStreak = 0 on a day without contributions
RECURSIVE LongestLoop_NoReset(_, _, _, _)
LongestLoop_NoReset(s, i, longestStreak, tempStreak) ==
  IF i > Len(s) THEN Max(longestStreak, tempStreak)
  ELSE IF s[i].count > 0
         THEN LongestLoop_NoReset(s, i + 1, longestStreak, tempStreak + 1)
         ELSE LongestLoop_NoReset(s, i + 1, Max(longestStreak, tempStreak), tempStreak)

\* the forEach loop over the sorted series, then longestStreak = max(longestStreak, tempStreak)
RECURSIVE LongestLoop(_, _, _, _)
LongestLoop(s, i, longestStreak, tempStreak) ==
  IF i > Len(s) THEN Max(longestStreak, tempStreak)
  ELSE IF s[i].count > 0
         THEN LongestLoop(s, i + 1, longestStreak, tempStreak + 1)
         ELSE LongestLoop(s, i + 1, Max(longestStreak, tempStreak), 0)

\* the backward loop with count >= 0 for count > 0
RECURSIVE ActiveLoop_CountGeqZero(_, _, _, _)
ActiveLoop_CountGeqZero(s, i, activeStreak, today) ==
  IF i < 1 THEN activeStreak
  ELSE IF s[i].count >= 0
         THEN ActiveLoop_CountGeqZero(s, i - 1, activeStreak + 1, today)
         ELSE IF s[i].date = today
                THEN ActiveLoop_CountGeqZero(s, i - 1, activeStreak, today)
                ELSE activeStreak

\* the backward loop without the `continue` for today's date
RECURSIVE ActiveLoop_NoTodaySkip(_, _, _, _)
ActiveLoop_NoTodaySkip(s, i, activeStreak, today) ==
  IF i < 1 THEN activeStreak
  ELSE IF s[i].count > 0
         THEN ActiveLoop_NoTodaySkip(s, i - 1, activeStreak + 1, today)
         ELSE activeStreak

\* the backward loop: for (i = length - 1; i >= 0; i--), with indices from 1
RECURSIVE ActiveLoop(_, _, _, _)
ActiveLoop(s, i, activeStreak, today) ==
  IF i < 1 THEN activeStreak
  ELSE IF s[i].count > 0
         THEN ActiveLoop(s, i - 1, activeStreak + 1, today)
         ELSE IF s[i].date = today
                THEN ActiveLoop(s, i - 1, activeStreak, today)
                ELSE activeStreak

\* the shapes of data.total and what Object.values makes of them
TotalUndefined == [kind |-> "undefined"]
TotalNull == [kind |-> "null"]
TotalNumber == [kind |-> "number"]
TotalMap(values) == [kind |-> "object", values |-> values]

\* Object.values(undefined) and Object.values(null) throw a TypeError
ObjectValuesThrows(total) == total.kind \in {"undefined", "null"}
\* Object.values of a number has no own enumerable properties
ObjectValues(total) == IF total.kind = "object" THEN total.values ELSE <<>>

\* values.reduce((acc, curr) => acc + curr, 0)
RECURSIVE Reduce(_, _)
Reduce(values, acc) ==
  IF values = <<>> THEN acc ELSE Reduce(Tail(values), acc + Head(values))

\* the shapes of data.contributions: only an array has a sort method
ContribUndefined == [kind |-> "undefined"]
ContribObject == [kind |-> "object"]
ContribArray(items) == [kind |-> "array", items |-> items]

\* the parsed body: an object with the two properties, or null
StatsData(total, contributions) ==
  [kind |-> "object", total |-> total, contributions |-> contributions]
NullData == [kind |-> "null"]

\* the try block with the total summed from the counts of the daily series
StatsFromData_TotalFromSeries(data, today) ==
  IF data.kind # "object" THEN ZeroStats
  ELSE IF ObjectValuesThrows(data.total) THEN ZeroStats
  ELSE IF data.contributions.kind # "array" THEN ZeroStats
  ELSE LET contributions == SortByDate(data.contributions.items)
           total == Reduce([i \in 1..Len(contributions) |-> contributions[i].count], 0)
       IN [totalContributions |-> total,
           longestStreak |-> LongestLoop(contributions, 1, 0, 0),
           currentStreak |-> ActiveLoop(contributions, Len(contributions), 0, today)]

\* the try block with an empty daily series answered by the fallback record
StatsFromData_EmptyIsFailure(data, today) ==
  IF data.kind # "object" THEN ZeroStats
  ELSE IF ObjectValuesThrows(data.total) THEN ZeroStats
  ELSE IF data.contributions.kind # "array" THEN ZeroStats
  ELSE IF data.contributions.items = <<>> THEN ZeroStats
  ELSE LET total == Reduce(ObjectValues(data.total), 0)
           contributions == SortByDate(data.contributions.items)
       IN [totalContributions |-> total,
           longestStreak |-> LongestLoop(contributions, 1, 0, 0),
           currentStreak |-> ActiveLoop(contributions, Len(contributions), 0, today)]

\* the try block once `data` is parsed; a throw inside it reaches the catch
StatsFromData(data, today) ==
  IF data.kind # "object" THEN ZeroStats
  ELSE IF ObjectValuesThrows(data.total) THEN ZeroStats
  ELSE IF data.contributions.kind # "array" THEN ZeroStats
  ELSE LET total == Reduce(ObjectValues(data.total), 0)
           contributions == SortByDate(data.contributions.items)
       IN [totalContributions |-> total,
           longestStreak |-> LongestLoop(contributions, 1, 0, 0),
           currentStreak |-> ActiveLoop(contributions, Len(contributions), 0, today)]

\* fetchContributionStats: what the promise resolves to (it never rejects:
\* the whole body is inside try / catch)
FetchContributionStats(x, today) ==
  IF x.kind = "network" THEN ZeroStats
  ELSE IF ~ResponseOk(x) THEN ZeroStats
  ELSE IF ~x.body.json THEN ZeroStats
  ELSE StatsFromData(x.body.value, today)

-----------------------------------------------------------------------------
(* SpecStats: fetchContributionStats on every modelled exchange and date.  *)

Dates == 1..3
Counts == 0..2
\* today's UTC date: a date of the series, or one after all of them
Todays == 1..4

RECURSIVE SeqsUpTo(_, _)
SeqsUpTo(S, n) ==
  IF n = 0 THEN {<<>>}
  ELSE LET shorter == SeqsUpTo(S, n - 1)
       IN shorter \cup {Append(s, e) : s \in {t \in shorter : Len(t) = n - 1}, e \in S}

Days == [date : Dates, count : Counts]
Series == SeqsUpTo(Days, MaxDays)

TotalShapes == {TotalUndefined, TotalNull, TotalNumber, TotalMap(<<>>), TotalMap(<<4>>), TotalMap(<<1, 2>>)}
ContribShapes == {ContribUndefined, ContribObject}

StatsDataSet ==
  {NullData}
  \cup {StatsData(t, ContribArray(s)) : t \in TotalShapes, s \in Series}
  \cup {StatsData(t, c) : t \in TotalShapes, c \in ContribShapes}

StatsExchanges ==
  {NetFailure, Response(404, "Not Found", MalformedBody),
   Response(500, "Server Error", JsonBody(StatsData(TotalMap(<<4>>), ContribArray(<<>>)))),
   Response(200, "OK", MalformedBody)}
  \cup {Response(200, "OK", JsonBody(d)) : d \in StatsDataSet}

StatsInit ==
  /\ statsIn \in [exchange : StatsExchanges, today : Todays]
  /\ statsOut = [ran |-> FALSE]

\* one call of fetchContributionStats runs to completion
CallFetchContributionStats ==
  /\ ~statsOut.ran
  /\ statsOut' = [ran |-> TRUE,
                  stats |-> FetchContributionStats(statsIn.exchange, statsIn.today)]
  /\ UNCHANGED statsIn

-----------------------------------------------------------------------------
(* JavaScript values that may be absent.                                   *)

Undefined == [is |-> "undefined"]
Null == [is |-> "null"]
Str(text) == [is |-> "string", text |-> text]
Pending == [settled |-> "pending"]
IsPending(p) == p.settled = "pending"

-----------------------------------------------------------------------------
(* extractUsername.  A string is modelled as a sequence of tokens: a       *)
(* space, a slash, a letter, or the word "github.com".                     *)

RECURSIVE TrimStart(_)
TrimStart(s) == IF s # <<>> /\ Head(s) = " " THEN TrimStart(Tail(s)) ELSE s

RECURSIVE TrimEnd(_)
TrimEnd(s) ==
  IF s # <<>> /\ s[Len(s)] = " " THEN TrimEnd(SubSeq(s, 1, Len(s) - 1)) ELSE s

\* String.prototype.trim
Trim(s) == TrimEnd(TrimStart(s))

\* s.split('/'): the segments between the slashes, empty ones included
RECURSIVE SplitSlash(_, _, _)
SplitSlash(s, done, segment) ==
  IF s = <<>> THEN Append(done, segment)
  ELSE IF Head(s) = "/" THEN SplitSlash(Tail(s), Append(done, segment), <<>>)
       ELSE SplitSlash(Tail(s), done, Append(segment, Head(s)))

\* parts.filter(p => p)
NonEmptyParts(parts) == SelectSeq(parts, LAMBDA p : p # <<>>)

Includes(s, token) == \E i \in 1..Len(s) : s[i] = token

\* the URL parser skips the slashes that precede the host
RECURSIVE DropEmptyHead(_)
DropEmptyHead(segments) ==
  IF segments # <<>> /\ Head(segments) = <<>>
    THEN DropEmptyHead(Tail(segments))
    ELSE segments

\* new URL("https://" + clean).pathname, split and filtered; the URL parser
\* throws without a host or on a host with a space in it, and writes a space
\* of the path as %20
UrlPathParts(clean) ==
  LET segments == DropEmptyHead(SplitSlash(clean, <<>>, <<>>))
      encode(seg) == [i \in 1..Len(seg) |-> IF seg[i] = " " THEN "%20" ELSE seg[i]]
  IN IF segments = <<>> \/ Includes(Head(segments), " ")
       THEN [threw |-> TRUE, parts |-> <<>>]
       ELSE [threw |-> FALSE,
             parts |-> NonEmptyParts([i \in 1..(Len(segments) - 1) |-> encode(segments[i + 1])])]

\* extractUsername: the first path segment of a github.com URL, else the
\* first slash-separated part, else the trimmed input (Null when empty)
ExtractUsername(input) ==
  LET clean == Trim(input)
      url == UrlPathParts(clean)
      parts == NonEmptyParts(SplitSlash(clean, <<>>, <<>>))
  IN IF Includes(clean, "github.com") /\ ~url.threw /\ Len(url.parts) > 0
       THEN Str(url.parts[1])
       ELSE IF Len(parts) > 0 THEN Str(parts[1])
            ELSE IF clean # <<>> THEN Str(clean) ELSE Null

-----------------------------------------------------------------------------
(* getRepoReadme.  The README endpoint answers { content, encoding }; the  *)
(* decoded text is modelled by the repository it belongs to and its        *)
(* length, the base64 content by the text it decodes to (or as empty, or   *)
(* as a string atob rejects).                                              *)

ReadmeLimit == 2000

Text(repo, length) == [of |-> repo, length |-> length]
EmptyContent == [kind |-> "empty"]
InvalidContent == [kind |-> "invalid"]
Base64Content(text) == [kind |-> "base64", text |-> text]
ReadmeData(encoding, content) == [encoding |-> encoding, content |-> content]

\* text.slice(0, n)
Slice(text, n) == [text EXCEPT !.length = IF text.length <= n THEN text.length ELSE n]

\* getRepoReadme returning the whole decoded text
GetRepoReadme_NoSlice(x) ==
  LET r == FetchGitHub(x)
  IN IF IsRejected(r) THEN Resolved(Null)
     ELSE IF r.value.encoding = "base64" /\ r.value.content.kind # "empty"
            THEN IF r.value.content.kind = "invalid" THEN Resolved(Null)
                 ELSE Resolved(Str(r.value.content.text))
            ELSE Resolved(Null)

\* getRepoReadme that lets a failed fetch escape as a rejection
GetRepoReadme_Propagates(x) ==
  LET r == FetchGitHub(x)
  IN IF IsRejected(r) THEN r
     ELSE IF r.value.encoding = "base64" /\ r.value.content.kind # "empty"
            THEN IF r.value.content.kind = "invalid" THEN Resolved(Null)
                 ELSE Resolved(Str(Slice(r.value.content.text, ReadmeLimit)))
            ELSE Resolved(Null)

\* getRepoReadme: the outcome of its promise; every throw inside the try
\* (a fetchGitHub failure, atob on an invalid string) ends in `return null`
GetRepoReadme(x) ==
  LET r == FetchGitHub(x)
  IN IF IsRejected(r) THEN Resolved(Null)
     ELSE IF r.value.encoding = "base64" /\ r.value.content.kind # "empty"
            THEN IF r.value.content.kind = "invalid" THEN Resolved(Null)
                 ELSE Resolved(Str(Slice(r.value.content.text, ReadmeLimit)))
            ELSE Resolved(Null)

-----------------------------------------------------------------------------
(* fetchFullProfileData.  One invocation is the record                     *)
(*   pc        "none" | "profile" | "reposStats" | "readmes" | "done"      *)
(*   username  the handle it was called with                               *)
(*   user      the profile, once fetched                                   *)
(*   reposP, statsP   the two promises given to the first Promise.all      *)
(*   readmeP   the promises the repos.map callbacks return                 *)
(*   result    the promise fetchFullProfileData itself returns             *)
(*   requests  the requests issued so far, in order                        *)
(*   failedReadmes  the indices whose README request fetchGitHub rejected   *)
(*   unusableReadmes  the indices whose README response was not base64,     *)
(*                  had an empty content or a content atob rejects          *)
(*   statsFirst     the statistics arrived before the repository list      *)
(*   overtaken      a README arrived before the README of a lower index     *)

Request(op) == [op |-> op]
ReadmeRequest(index) == [op |-> "readme", index |-> index]

\* the repos.map callback attaches a README to the entries with index < 3
ReadmeCount == 3

NoAggregate ==
  [pc |-> "none", username |-> <<>>, user |-> Undefined, reposP |-> Pending,
   statsP |-> Pending, readmeP |-> <<>>, result |-> Pending, requests |-> <<>>,
   failedReadmes |-> {}, unusableReadmes |-> {},
   statsFirst |-> FALSE, overtaken |-> FALSE]

\* the call: getUserProfile is requested
StartAggregate(username) ==
  [NoAggregate EXCEPT !.pc = "profile", !.username = username,
                      !.requests = <<Request("profile")>>]

\* { ...repo, readmeContent: readme }
WithReadme(repo, readme) == [id |-> repo.id, readmeContent |-> readme]

\* the second Promise.all followed by a filter that drops the repos whose
\* README is null
SettleReadmes_DropsNull(a) ==
  IF \A i \in 1..Len(a.readmeP) : IsResolved(a.readmeP[i])
    THEN [a EXCEPT !.pc = "done",
                   !.result = Resolved([user |-> a.user,
                                        repos |-> SelectSeq([i \in 1..Len(a.readmeP) |-> a.readmeP[i].value],
                                                            LAMBDA repo : repo.readmeContent # Null),
                                        stats |-> a.statsP.value])]
    ELSE IF \E i \in 1..Len(a.readmeP) : IsRejected(a.readmeP[i])
           THEN [a EXCEPT !.pc = "done",
                          !.result = (LET i == CHOOSE k \in 1..Len(a.readmeP) : IsRejected(a.readmeP[k])
                                      IN a.readmeP[i])]
           ELSE a

\* the aggregator with the empty check of handleAnalyze moved into it
SettleReadmes_RejectsEmpty(a) ==
  IF \A i \in 1..Len(a.readmeP) : IsResolved(a.readmeP[i])
    THEN IF Len(a.readmeP) = 0
           THEN [a EXCEPT !.pc = "done",
                          !.result = Rejected(NewError("This user has no public repositories to analyze."))]
           ELSE [a EXCEPT !.pc = "done",
                          !.result = Resolved([user |-> a.user,
                                               repos |-> [i \in 1..Len(a.readmeP) |-> a.readmeP[i].value],
                                               stats |-> a.statsP.value])]
    ELSE IF \E i \in 1..Len(a.readmeP) : IsRejected(a.readmeP[i])
           THEN [a EXCEPT !.pc = "done",
                          !.result = (LET i == CHOOSE k \in 1..Len(a.readmeP) : IsRejected(a.readmeP[k])
                                      IN a.readmeP[i])]
           ELSE a

\* the second Promise.all settles once every callback's promise has: the
\* aggregate resolves with the results in the order of the array mapped
SettleReadmes(a) ==
  IF \A i \in 1..Len(a.readmeP) : IsResolved(a.readmeP[i])
    THEN [a EXCEPT !.pc = "done",
                   !.result = Resolved([user |-> a.user,
                                        repos |-> [i \in 1..Len(a.readmeP) |-> a.readmeP[i].value],
                                        stats |-> a.statsP.value])]
    ELSE IF \E i \in 1..Len(a.readmeP) : IsRejected(a.readmeP[i])
           THEN [a EXCEPT !.pc = "done",
                          !.result = (LET i == CHOOSE k \in 1..Len(a.readmeP) : IsRejected(a.readmeP[k])
                                      IN a.readmeP[i])]
           ELSE a

\* repos.map with a README request for every repo, whatever its index
LaunchReadmes_AllRepos(a) ==
  LET repos == a.reposP.value
  IN SettleReadmes([a EXCEPT
       !.pc = "readmes",
       !.readmeP = [i \in 1..Len(repos) |-> Pending],
       !.requests = a.requests \o [i \in 1..Len(repos) |-> ReadmeRequest(i)]])

\* repos.map(async (repo, index) => ...): a README request for each index
\* below 3, the repo itself for the others
LaunchReadmes(a) ==
  LET repos == a.reposP.value
      first == IF Len(repos) <= ReadmeCount THEN Len(repos) ELSE ReadmeCount
  IN SettleReadmes([a EXCEPT
       !.pc = "readmes",
       !.readmeP = [i \in 1..Len(repos) |->
                      IF i - 1 < ReadmeCount THEN Pending ELSE Resolved(repos[i])],
       !.requests = a.requests \o [i \in 1..first |-> ReadmeRequest(i)]])

\* the first Promise.all: it rejects as soon as getUserRepos does, and
\* resolves when both promises have
JoinReposStats(a) ==
  IF IsRejected(a.reposP) THEN [a EXCEPT !.pc = "done", !.result = a.reposP]
  ELSE IF IsResolved(a.reposP) /\ IsResolved(a.statsP) THEN LaunchReadmes(a)
       ELSE a

\* getUserProfile not awaited before the two requests that follow it
ProfileSettled_RequestsAnyway(a, r) ==
  IF IsRejected(r)
    THEN [a EXCEPT !.pc = "done", !.result = r,
                   !.requests = a.requests \o <<Request("repos"), Request("stats")>>]
    ELSE [a EXCEPT !.pc = "reposStats", !.user = r.value,
                   !.requests = a.requests \o <<Request("repos"), Request("stats")>>]

\* `await getUserProfile` settles: a rejection is the aggregate's, a profile
\* starts getUserRepos and fetchContributionStats together
ProfileSettled(a, r) ==
  IF IsRejected(r) THEN [a EXCEPT !.pc = "done", !.result = r]
  ELSE [a EXCEPT !.pc = "reposStats", !.user = r.value,
                 !.requests = a.requests \o <<Request("repos"), Request("stats")>>]

\* getUserRepos asking once more after a first failure
ReposSettled_RetriesOnce(a, r) ==
  IF IsRejected(r) /\ Len(SelectSeq(a.requests, LAMBDA q : q.op = "repos")) < 2
    THEN [a EXCEPT !.requests = Append(a.requests, Request("repos"))]
    ELSE JoinReposStats([a EXCEPT !.reposP = r])

ReposSettled(a, r) == JoinReposStats([a EXCEPT !.reposP = r])

\* fetchContributionStats resolves; after a rejected aggregate nobody listens
StatsSettled(a, stats) ==
  IF a.pc = "reposStats" THEN JoinReposStats([a EXCEPT !.statsP = Resolved(stats)])
  ELSE [a EXCEPT !.statsP = Resolved(stats)]

\* the README callbacks filling the result in the order they settle
ReadmeSettled_CompletionOrder(a, index, r) ==
  LET slot == CHOOSE k \in 1..Len(a.readmeP) :
                /\ IsPending(a.readmeP[k])
                /\ \A j \in 1..(k - 1) : ~IsPending(a.readmeP[j])
  IN SettleReadmes([a EXCEPT !.readmeP[slot] =
       IF IsRejected(r) THEN r ELSE Resolved(WithReadme(a.reposP.value[slot], r.value))])

\* the README callback of the repo at `index` settles
ReadmeSettled(a, index, r) ==
  SettleReadmes([a EXCEPT !.readmeP[index] =
     IF IsRejected(r) THEN r ELSE Resolved(WithReadme(a.reposP.value[index], r.value))])

\* what getRepoReadme meets in exchange x: a failed request, an encoding
\* other than base64, an empty content, a content atob rejects, or a
\* content that decodes
ReadmeCase(x) ==
  LET r == FetchGitHub(x)
  IN IF IsRejected(r) THEN "failed"
     ELSE IF r.value.encoding # "base64" THEN "notBase64"
     ELSE IF r.value.content.kind = "empty" THEN "empty"
     ELSE IF r.value.content.kind = "invalid" THEN "undecodable"
     ELSE "decoded"

\* the fetchGitHub call inside getRepoReadme for `index` saw exchange x
NoteReadme(a, index, x) ==
  [a EXCEPT !.failedReadmes = IF IsRejected(FetchGitHub(x)) THEN @ \cup {index} ELSE @,
            !.unusableReadmes =
               IF ReadmeCase(x) \in {"notBase64", "empty", "undecodable"}
                 THEN @ \cup {index} ELSE @]

\* the answer to `request` has arrived, `before` being the invocation as
\* the answer found it
NoteAnswer(a, before, request) ==
  [a EXCEPT
     !.statsFirst = @ \/ (request.op = "stats" /\ before.pc = "reposStats"
                            /\ IsPending(before.reposP)),
     !.overtaken = @ \/ (request.op = "readme"
                           /\ \E j \in 1..(request.index - 1) : IsPending(before.readmeP[j]))]

-----------------------------------------------------------------------------
(* analyzeProfile.  The model's reply is an exception, or a response whose *)
(* text is empty, is not JSON, or is JSON with some set of properties.     *)

RequiredFields ==
  {"profileScore", "professionalPersona", "profileSummary", "technicalSkills",
   "overallImpression", "careerAdvice", "repoAnalyses"}

ModelThrows(message) == [kind |-> "throws", error |-> NewError(message)]
ModelText(text) == [kind |-> "response", text |-> text]
EmptyText == [kind |-> "empty"]
NotJsonText == [kind |-> "notJson"]
JsonText(fields) == [kind |-> "json", fields |-> fields]

MissingKeyMessage == "Gemini API Key is missing"
NoResponseMessage == "No response from AI service"

\* analyzeProfile returning response.text as it is, without JSON.parse
AnalysisOf_NoParse(reply) ==
  IF reply.kind = "throws" THEN Rejected(reply.error)
  ELSE IF reply.text.kind = "empty" THEN Rejected(NewError(NoResponseMessage))
  ELSE IF reply.text.kind = "notJson" THEN Resolved([fields |-> {}])
  ELSE Resolved([fields |-> reply.text.fields])

\* analyzeProfile from the reply of generateContent on
AnalysisOf(reply) ==
  IF reply.kind = "throws" THEN Rejected(reply.error)
  ELSE IF reply.text.kind = "empty" THEN Rejected(NewError(NoResponseMessage))
  ELSE IF reply.text.kind = "notJson" THEN Rejected(JsonSyntaxError)
  ELSE Resolved([fields |-> reply.text.fields])

-----------------------------------------------------------------------------
(* The App: handleAnalyze and handleReset over the component's state.      *)

VARIABLES
  username,   \* useState(''): the text of the input
  state,      \* useState(AnalysisState.IDLE)
  error,      \* useState<string | null>(null)
  data,       \* useState<{user, repos, analysis, stats} | null>(null)
  apiKey,     \* whether process.env.API_KEY is set
  pc,         \* where the running handleAnalyze is suspended: "idle" | "aggregate" | "analyze"
  agg,        \* the fetchFullProfileData invocation of the last handleAnalyze
  log,        \* the calls handleAnalyze made into the assessment service, in order
  analysisP,  \* the promise analyzeProfile returned in the last handleAnalyze
  modelReply, \* what generateContent answered that analyzeProfile with
  wasReset    \* whether handleReset has run

appVars ==
  <<username, state, error, data, apiKey, pc, agg, log, analysisP, modelReply, wasReset>>

\* repositories in a repository-list response
MaxRepos == 4

NoReposMessage == "This user has no public repositories to analyze."
InvalidInputMessage == "Please enter a valid GitHub username or URL."
UnexpectedMessage == "An unexpected error occurred."

\* err.message || "An unexpected error occurred."
MessageOf(err) == IF err.message = "" THEN UnexpectedMessage ELSE err.message

\* what the user may type
UsernameInputs ==
  {<<>>, <<" ">>, <<"a">>, <<"/">>, <<" ", "b", "/", "a">>, <<"github.com", "/", "a">>}

\* the exchanges the network may answer each request with
ProfileExchanges(handle) ==
  {NetFailure, Response(404, "Not Found", MalformedBody), Response(403, "", MalformedBody),
   Response(500, "", MalformedBody), Response(200, "", MalformedBody),
   Response(200, "", JsonBody([login |-> handle]))}

\* a repository of the list response; readmeContent is an optional property
Repo(id) == [id |-> id, readmeContent |-> Undefined]
Ascending(n) == [i \in 1..n |-> Repo(i)]
Descending(n) == [i \in 1..n |-> Repo(n + 1 - i)]
RepoLists == {Ascending(n) : n \in 0..MaxRepos} \cup {Descending(n) : n \in 0..MaxRepos}

RepoExchanges ==
  {NetFailure, Response(403, "Forbidden", MalformedBody), Response(502, "Bad Gateway", MalformedBody),
   Response(200, "OK", MalformedBody)}
  \cup {Response(200, "OK", JsonBody(l)) : l \in RepoLists}

\* today's date when the statistics arrive: the last date of the series
\* below, or the day after
AppTodays == {3, 4}
AppStatsExchanges ==
  {NetFailure, Response(500, "", MalformedBody), Response(200, "", MalformedBody),
   Response(200, "", JsonBody(StatsData(TotalMap(<<4>>),
       ContribArray(<<[date |-> 2, count |-> 1], [date |-> 3, count |-> 0]>>))))}

ReadmeExchanges(repo) ==
  {NetFailure, Response(404, "Not Found", MalformedBody), Response(403, "", MalformedBody),
   Response(200, "", MalformedBody),
   Response(200, "", JsonBody(ReadmeData("utf-8", Base64Content(Text(repo.id, 5))))),
   Response(200, "", JsonBody(ReadmeData("base64", EmptyContent))),
   Response(200, "", JsonBody(ReadmeData("base64", InvalidContent))),
   Response(200, "", JsonBody(ReadmeData("base64", Base64Content(Text(repo.id, 5))))),
   Response(200, "", JsonBody(ReadmeData("base64", Base64Content(Text(repo.id, ReadmeLimit + 1)))))}

ModelReplies ==
  {ModelThrows("Service unavailable"), ModelThrows(""), ModelText(EmptyText), ModelText(NotJsonText),
   ModelText(JsonText(RequiredFields)), ModelText(JsonText(RequiredFields \ {"repoAnalyses"}))}

\* analyzeProfile has not been called; generateContent has not answered
NotCalled == [settled |-> "none"]
NoReply == [kind |-> "none"]

AppInit ==
  /\ username = <<>>
  /\ state = "IDLE"
  /\ error = Null
  /\ data = Null
  /\ apiKey \in BOOLEAN
  /\ pc = "idle"
  /\ agg = NoAggregate
  /\ log = <<>>
  /\ analysisP = NotCalled
  /\ modelReply = NoReply
  /\ wasReset = FALSE

\* the catch block of handleAnalyze without its setError
Catch_NoMessage(err) ==
  /\ state' = "ERROR"
  /\ pc' = "idle"
  /\ UNCHANGED <<error, data>>

\* the catch block of handleAnalyze
Catch(err) ==
  /\ error' = Str(MessageOf(err))
  /\ state' = "ERROR"
  /\ pc' = "idle"
  /\ UNCHANGED data

\* setState(ANALYZING_GEMINI) and analyzeProfile up to its first await,
\* without the API_KEY check
AnalyzeProfile_NoKeyCheck ==
  /\ state' = "ANALYZING_GEMINI"
  /\ pc' = "analyze"
  /\ log' = log \o <<"analyzeProfile", "generateContent">>
  /\ analysisP' = Pending
  /\ UNCHANGED <<error, data, modelReply>>

\* setState(ANALYZING_GEMINI) and the call of analyzeProfile up to its first
\* await: without an API_KEY it throws before generateContent is called, and
\* the catch block of handleAnalyze runs
AnalyzeProfile ==
  IF ~apiKey
    THEN /\ Catch(NewError(MissingKeyMessage))
         /\ log' = Append(log, "analyzeProfile")
         /\ analysisP' = Rejected(NewError(MissingKeyMessage))
         /\ UNCHANGED modelReply
    ELSE /\ state' = "ANALYZING_GEMINI"
         /\ pc' = "analyze"
         /\ log' = log \o <<"analyzeProfile", "generateContent">>
         /\ analysisP' = Pending
         /\ UNCHANGED <<error, data, modelReply>>

\* handleAnalyze from `await fetchFullProfileData` on, without the
\* `repos.length === 0` check
AfterAggregate_NoEmptyCheck(result) ==
  IF IsRejected(result) THEN Catch(result.error) /\ UNCHANGED <<log, analysisP, modelReply>>
  ELSE AnalyzeProfile

\* handleAnalyze from `await fetchFullProfileData` on, run when the aggregate
\* has settled: the empty check, then the call of analyzeProfile up to its
\* first await
AfterAggregate(result) ==
  IF IsRejected(result) THEN Catch(result.error) /\ UNCHANGED <<log, analysisP, modelReply>>
  ELSE IF Len(result.value.repos) = 0
    THEN Catch(NewError(NoReposMessage)) /\ UNCHANGED <<log, analysisP, modelReply>>
  ELSE AnalyzeProfile

\* a step of the aggregation; handleAnalyze resumes in the same turn of the
\* event loop once the aggregate's promise has settled
AggregateStep(next) ==
  /\ agg' = next
  /\ IF pc = "aggregate" /\ ~IsPending(next.result)
       THEN AfterAggregate(next.result)
       ELSE UNCHANGED <<state, error, data, pc, log, analysisP, modelReply>>
  /\ UNCHANGED <<username, apiKey>>

\* onChange of the input, which is disabled while a run is in flight
SetUsername ==
  /\ UNCHANGED <<fetchVars, statsVars, chatVars, wasReset>>
  /\ state \in {"IDLE", "ERROR"}
  /\ \E u \in UsernameInputs : username' = u
  /\ UNCHANGED <<state, error, data, apiKey, pc, agg, log, analysisP, modelReply>>

\* the form's submit with a button that is disabled only without a username
HandleAnalyze_AlwaysEnabled ==
  /\ UNCHANGED <<fetchVars, statsVars, chatVars, wasReset>>
  /\ username # <<>>
  /\ IF Trim(username) = <<>>
       THEN UNCHANGED <<username, state, error, data, apiKey, pc, agg, log,
                        analysisP, modelReply>>
       ELSE LET targetUser == ExtractUsername(username)
            IN IF targetUser = Null
                 THEN /\ error' = Str(InvalidInputMessage)
                      /\ UNCHANGED <<username, state, data, apiKey, pc, agg, log,
                                     analysisP, modelReply>>
                 ELSE /\ state' = "FETCHING_GITHUB"
                      /\ error' = Null
                      /\ pc' = "aggregate"
                      /\ agg' = StartAggregate(targetUser.text)
                      /\ log' = <<>>
                      /\ analysisP' = NotCalled
                      /\ modelReply' = NoReply
                      /\ UNCHANGED <<username, data, apiKey>>

\* the form's submit, whose button is disabled without a username and while
\* a run is in flight: handleAnalyze up to `await fetchFullProfileData`
HandleAnalyze ==
  /\ UNCHANGED <<fetchVars, statsVars, chatVars, wasReset>>
  /\ username # <<>>
  /\ state \in {"IDLE", "ERROR"}
  /\ IF Trim(username) = <<>>
       THEN UNCHANGED <<username, state, error, data, apiKey, pc, agg, log,
                        analysisP, modelReply>>
       ELSE LET targetUser == ExtractUsername(username)
            IN IF targetUser = Null
                 THEN /\ error' = Str(InvalidInputMessage)
                      /\ UNCHANGED <<username, state, data, apiKey, pc, agg, log,
                                     analysisP, modelReply>>
                 ELSE /\ state' = "FETCHING_GITHUB"
                      /\ error' = Null
                      /\ pc' = "aggregate"
                      /\ agg' = StartAggregate(targetUser.text)
                      /\ log' = <<>>
                      /\ analysisP' = NotCalled
                      /\ modelReply' = NoReply
                      /\ UNCHANGED <<username, data, apiKey>>

\* the profile request is answered
ProfileResponse ==
  /\ UNCHANGED <<fetchVars, statsVars, chatVars, wasReset>>
  /\ agg.pc = "profile"
  /\ \E x \in ProfileExchanges(agg.username) :
       AggregateStep(ProfileSettled(agg, FetchGitHub(x)))

\* the repository-list request is answered
ReposResponse ==
  /\ UNCHANGED <<fetchVars, statsVars, chatVars, wasReset>>
  /\ agg.pc = "reposStats"
  /\ IsPending(agg.reposP)
  /\ \E x \in RepoExchanges :
       AggregateStep(ReposSettled(agg, FetchGitHub(x)))

\* the statistics request is answered, possibly after the aggregate failed
StatsResponse ==
  /\ UNCHANGED <<fetchVars, statsVars, chatVars, wasReset>>
  /\ agg.pc \in {"reposStats", "done"}
  /\ Len(agg.requests) >= 3
  /\ IsPending(agg.statsP)
  /\ \E x \in AppStatsExchanges, today \in AppTodays :
       AggregateStep(NoteAnswer(StatsSettled(agg, FetchContributionStats(x, today)),
                                agg, Request("stats")))

\* one of the README requests is answered
ReadmeResponse ==
  /\ UNCHANGED <<fetchVars, statsVars, chatVars, wasReset>>
  /\ agg.pc = "readmes"
  /\ \E i \in 1..Len(agg.readmeP) :
       /\ IsPending(agg.readmeP[i])
       /\ \E x \in ReadmeExchanges(agg.reposP.value[i]) :
            AggregateStep(NoteAnswer(NoteReadme(ReadmeSettled(agg, i, GetRepoReadme(x)), i, x),
                                     agg, ReadmeRequest(i)))

\* generateContent is answered: analyzeProfile settles and handleAnalyze
\* runs to its end
ModelResponse ==
  /\ UNCHANGED <<fetchVars, statsVars, chatVars, wasReset>>
  /\ pc = "analyze"
  /\ \E r \in ModelReplies :
       LET analysis == AnalysisOf(r)
       IN /\ modelReply' = r
          /\ analysisP' = analysis
          /\ IF IsRejected(analysis)
               THEN Catch(analysis.error)
               ELSE /\ data' = [is |-> "object",
                                user |-> agg.result.value.user,
                                repos |-> agg.result.value.repos,
                                analysis |-> analysis.value,
                                stats |-> agg.result.value.stats]
                    /\ state' = "COMPLETE"
                    /\ pc' = "idle"
                    /\ UNCHANGED error
  /\ UNCHANGED <<username, apiKey, agg, log>>

\* handleReset without setData(null)
HandleReset_KeepsData ==
  /\ UNCHANGED <<fetchVars, statsVars, chatVars>>
  /\ state = "COMPLETE"
  /\ data # Null
  /\ state' = "IDLE"
  /\ username' = <<>>
  /\ error' = Null
  /\ wasReset' = TRUE
  /\ UNCHANGED <<data, apiKey, pc, agg, log, analysisP, modelReply>>

\* onReset of the AnalysisView, which is rendered when COMPLETE with data
HandleReset ==
  /\ UNCHANGED <<fetchVars, statsVars, chatVars>>
  /\ state = "COMPLETE"
  /\ data # Null
  /\ state' = "IDLE"
  /\ data' = Null
  /\ username' = <<>>
  /\ error' = Null
  /\ wasReset' = TRUE
  /\ UNCHANGED <<apiKey, pc, agg, log, analysisP, modelReply>>

-----------------------------------------------------------------------------
(* The ChatWidget.  A text is the sequence of the pieces it was put        *)
(* together from, the empty string being the empty sequence, so that       *)
(* `fullText += text` is a concatenation of sequences.                     *)

Message(role, text) == [role |-> role, text |-> text]

ApologyText == <<"Sorry, I encountered an error. Please try again.">>

\* the first message, which names the user of the props
Greeting(p) == Message("model", <<"Hi! I've analyzed @", p, "'s profile.">>)

\* what ai.chats.create returns: a session with the context built from the props
Session(id, p) == [is |-> "chat", id |-> id, context |-> p]

\* the props the widget may be rendered with
PropsValues == {"first", "second"}
\* what the user may type into the chat input
ChatInputs == {<<>>, <<" ">>, <<" ", "q", " ">>}
\* chunk.text of the chunk that follows the chunks `received`: a piece of
\* the reply, told from the pieces of the other chunks, or nothing (undefined
\* or ""); a stream has at most one chunk without text, at any position
ChunkPieces == <<"x", "y", "z", "w">>
ChunkTexts(received) ==
  {<<ChunkPieces[(Len(received) % Len(ChunkPieces)) + 1]>>}
    \cup (IF \E i \in 1..Len(received) : received[i] = <<>> THEN {} ELSE {<<>>})

\* the effect without the `!chatSession.current` condition
InitEffect_NoRefCheck(open, p) ==
  IF open /\ chatKey
    THEN [chatSession |-> Session(created + 1, p),
          messages |-> <<Greeting(p)>>,
          created |-> created + 1]
    ELSE [chatSession |-> chatSession, messages |-> messages, created |-> created]

\* the useEffect on [isOpen, user, analysis]: it creates the session and
\* sets the greeting when the widget is open, has no session and has a key
InitEffect(open, p) ==
  IF open /\ chatSession = Null /\ chatKey
    THEN [chatSession |-> Session(created + 1, p),
          messages |-> <<Greeting(p)>>,
          created |-> created + 1]
    ELSE [chatSession |-> chatSession, messages |-> messages, created |-> created]

\* a render with the given isOpen and props, and the effect that follows it
RunEffect(open, p) ==
  LET after == InitEffect(open, p)
  IN /\ chatSession' = after.chatSession
     /\ messages' = after.messages
     /\ created' = after.created

\* the catch block's updater writing the apology over the last message
\* whatever it holds
CatchMessages_Overwrites(msgs) ==
  IF Len(msgs) > 0 /\ msgs[Len(msgs)].role = "model"
    THEN [msgs EXCEPT ![Len(msgs)].text = ApologyText]
    ELSE Append(msgs, Message("model", ApologyText))

\* the catch block's updater: the apology replaces an empty placeholder, or
\* is pushed as a new message
CatchMessages(msgs) ==
  IF Len(msgs) > 0 /\ msgs[Len(msgs)].role = "model" /\ msgs[Len(msgs)].text = <<>>
    THEN [msgs EXCEPT ![Len(msgs)].text = ApologyText]
    ELSE Append(msgs, Message("model", ApologyText))

\* the chunk's updater writing the chunk's own text into the last message
ChunkMessages_ChunkOnly(msgs, fullText, text) ==
  IF Len(msgs) > 0 THEN [msgs EXCEPT ![Len(msgs)].text = text] ELSE msgs

\* the chunk's updater: the last message gets the text accumulated so far
ChunkMessages(msgs, fullText, text) ==
  IF Len(msgs) > 0 THEN [msgs EXCEPT ![Len(msgs)].text = fullText] ELSE msgs

\* the handleSend run in flight, if any, is the last one started
LastSend == sent[Len(sent)]
SendAt(status) == sent # <<>> /\ LastSend.status = status

ChatInit ==
  /\ isOpen = FALSE
  /\ messages = <<>>
  /\ chatInput = <<>>
  /\ isLoading = FALSE
  /\ chatSession = Null
  /\ props \in PropsValues
  /\ chatKey \in BOOLEAN
  /\ created = 0
  /\ sent = <<>>

\* the floating button, rendered while the widget is closed
ChatOpen ==
  /\ UNCHANGED <<fetchVars, statsVars, appVars>>
  /\ ~isOpen
  /\ isOpen' = TRUE
  /\ RunEffect(TRUE, props)
  /\ UNCHANGED <<chatInput, isLoading, props, chatKey, sent>>

\* the X button of the chat window made to end the send in flight
ChatClose_Cancels ==
  /\ UNCHANGED <<fetchVars, statsVars, appVars>>
  /\ isOpen
  /\ isOpen' = FALSE
  /\ isLoading' = FALSE
  /\ RunEffect(FALSE, props)
  /\ UNCHANGED <<chatInput, props, chatKey, sent>>

\* the X button of the chat window
ChatClose ==
  /\ UNCHANGED <<fetchVars, statsVars, appVars>>
  /\ isOpen
  /\ isOpen' = FALSE
  /\ RunEffect(FALSE, props)
  /\ UNCHANGED <<chatInput, isLoading, props, chatKey, sent>>

\* the parent renders the widget with other user and analysis props
ChatChangeProps ==
  /\ UNCHANGED <<fetchVars, statsVars, appVars>>
  /\ \E p \in PropsValues \ {props} :
       /\ props' = p
       /\ RunEffect(isOpen, p)
  /\ UNCHANGED <<isOpen, chatInput, isLoading, chatKey, sent>>

\* onChange of the chat input, which is rendered while the widget is open
ChatType ==
  /\ UNCHANGED <<fetchVars, statsVars, appVars>>
  /\ isOpen
  /\ \E t \in ChatInputs \ {chatInput} : chatInput' = t
  /\ UNCHANGED <<isOpen, messages, isLoading, chatSession, props, chatKey, created, sent>>

\* the form's submit, whose button is disabled without input and while
\* loading: handleSend up to `await sendMessageStream`
HandleSend ==
  /\ UNCHANGED <<fetchVars, statsVars, appVars>>
  /\ isOpen
  /\ Trim(chatInput) # <<>>
  /\ ~isLoading
  /\ Len(sent) < MaxSends
  /\ IF chatSession = Null
       THEN UNCHANGED chatVars
       ELSE /\ chatInput' = <<>>
            /\ messages' = messages \o <<Message("user", Trim(chatInput)), Message("model", <<>>)>>
            /\ isLoading' = TRUE
            /\ sent' = Append(sent, [message |-> Trim(chatInput), session |-> chatSession,
                                     chunks |-> <<>>, fullText |-> <<>>, status |-> "request"])
            /\ UNCHANGED <<isOpen, chatSession, props, chatKey, created>>

\* sendMessageStream resolves with the stream
StreamOpens ==
  /\ UNCHANGED <<fetchVars, statsVars, appVars>>
  /\ SendAt("request")
  /\ sent' = [sent EXCEPT ![Len(sent)].status = "stream"]
  /\ UNCHANGED <<isOpen, messages, chatInput, isLoading, chatSession, props, chatKey, created>>

\* the catch block and the finally block of handleSend
ChatCatch ==
  /\ messages' = CatchMessages(messages)
  /\ isLoading' = FALSE
  /\ sent' = [sent EXCEPT ![Len(sent)].status = "failed"]
  /\ UNCHANGED <<isOpen, chatInput, chatSession, props, chatKey, created>>

\* sendMessageStream rejects
SendRejects ==
  /\ UNCHANGED <<fetchVars, statsVars, appVars>>
  /\ SendAt("request")
  /\ ChatCatch

\* the stream yields a chunk: one pass of the for-await loop
ChunkArrives ==
  /\ UNCHANGED <<fetchVars, statsVars, appVars>>
  /\ SendAt("stream")
  /\ Len(LastSend.chunks) < MaxChunks
  /\ \E text \in ChunkTexts(LastSend.chunks) :
       LET fullText == LastSend.fullText \o text
       IN /\ sent' = [sent EXCEPT ![Len(sent)].chunks = Append(@, text),
                                  ![Len(sent)].fullText = fullText]
          /\ messages' = IF text # <<>> THEN ChunkMessages(messages, fullText, text)
                                        ELSE messages
  /\ UNCHANGED <<isOpen, chatInput, isLoading, chatSession, props, chatKey, created>>

\* the stream ends: the loop is left and the finally block runs
StreamEnds ==
  /\ UNCHANGED <<fetchVars, statsVars, appVars>>
  /\ SendAt("stream")
  /\ isLoading' = FALSE
  /\ sent' = [sent EXCEPT ![Len(sent)].status = "done"]
  /\ UNCHANGED <<isOpen, messages, chatInput, chatSession, props, chatKey, created>>

\* the stream throws while it is read
StreamThrows ==
  /\ UNCHANGED <<fetchVars, statsVars, appVars>>
  /\ SendAt("stream")
  /\ ChatCatch

ChatParked ==
  /\ isOpen = FALSE /\ messages = <<>> /\ chatInput = <<>> /\ isLoading = FALSE
  /\ chatSession = Null /\ props = "first" /\ chatKey = FALSE /\ created = 0
  /\ sent = <<>>

AppParked ==
  /\ username = <<>> /\ state = "IDLE" /\ error = Null /\ data = Null
  /\ apiKey = FALSE /\ pc = "idle" /\ agg = NoAggregate /\ log = <<>>
  /\ analysisP = NotCalled /\ modelReply = NoReply /\ wasReset = FALSE

-----------------------------------------------------------------------------
FetchParked == calls = <<>>
StatsParked == statsIn = [today |-> 0] /\ statsOut = [ran |-> FALSE]

allVars == <<fetchVars, statsVars, appVars, chatVars>>

InitFetch == FetchInit /\ StatsParked /\ AppParked /\ ChatParked
NextFetch == CallFetchGitHub /\ UNCHANGED <<statsVars, appVars, chatVars>>
SpecFetch == InitFetch /\ [][NextFetch]_allVars

InitStats == StatsInit /\ FetchParked /\ AppParked /\ ChatParked
NextStats == CallFetchContributionStats /\ UNCHANGED <<fetchVars, appVars, chatVars>>
SpecStats == InitStats /\ [][NextStats]_allVars

InitChat == ChatInit /\ FetchParked /\ StatsParked /\ AppParked
NextChat ==
  \/ ChatOpen
  \/ ChatClose
  \/ ChatChangeProps
  \/ ChatType
  \/ HandleSend
  \/ StreamOpens
  \/ SendRejects
  \/ ChunkArrives
  \/ StreamEnds
  \/ StreamThrows
SpecChat == InitChat /\ [][NextChat]_allVars

\* the ChatWidget with an upstream that answers every request and ends or
\* breaks every stream it has opened
SpecChatLive ==
  /\ SpecChat
  /\ WF_allVars(StreamOpens \/ SendRejects)
  /\ WF_allVars(StreamEnds \/ StreamThrows)

Init == AppInit /\ FetchParked /\ StatsParked /\ ChatParked
Next ==
  \/ SetUsername
  \/ HandleAnalyze
  \/ ProfileResponse
  \/ ReposResponse
  \/ StatsResponse
  \/ ReadmeResponse
  \/ ModelResponse
  \/ HandleReset
Spec == Init /\ [][Next]_allVars

-----------------------------------------------------------------------------
(* Properties of fetchGitHub, checked under SpecFetch.                     *)

CallIndices == 1..Len(calls)
ResponseCalls == {i \in CallIndices : calls[i].exchange.kind = "response"}

YieldsJson(c) ==
  /\ IsResolved(c.result)
  /\ c.exchange.body.json
  /\ c.result.value = c.exchange.body.value
YieldsParseFailure(c) == c.result = Rejected(JsonSyntaxError)
YieldsRateLimited(c) == c.result = Rejected(NewError(RateLimitMessage))
YieldsNotFound(c) == c.result = Rejected(NewError(NotFoundMessage))
YieldsUpstream(c) == c.result = Rejected(NewError(ApiErrorMessage(c.exchange.statusText)))

\* how many of the four outcomes the claim lists the call ended in
FourOutcomeCount(c) ==
  Cardinality({k \in 1..4 :
     \/ k = 1 /\ YieldsJson(c)
     \/ k = 2 /\ YieldsRateLimited(c)
     \/ k = 3 /\ YieldsNotFound(c)
     \/ k = 4 /\ YieldsUpstream(c)})

ClassifiedNon2xx(c) ==
  LET status == c.exchange.status
  IN /\ status \in {403, 429} => YieldsRateLimited(c)
     /\ status = 404 => YieldsNotFound(c)
     /\ (~ResponseOk(c.exchange) /\ status \notin {403, 404, 429}) => YieldsUpstream(c)

C7_FourOutcomes ==
  \A i \in ResponseCalls :
    /\ ResponseOk(calls[i].exchange) => YieldsJson(calls[i])
    /\ ClassifiedNon2xx(calls[i])
    /\ FourOutcomeCount(calls[i]) = 1

\* C7 amended: as stated, except that a 2xx response yields the parsed JSON
\* body only when the body is JSON; a 2xx response whose body is not JSON
\* fails with the parser's error, a fifth outcome; exactly one of the five
\* occurs for every response
C7_FiveOutcomes ==
  \A i \in ResponseCalls :
    LET c == calls[i]
    IN /\ (ResponseOk(c.exchange) /\ c.exchange.body.json) => YieldsJson(c)
       /\ (ResponseOk(c.exchange) /\ ~c.exchange.body.json) => YieldsParseFailure(c)
       /\ ClassifiedNon2xx(c)
       /\ FourOutcomeCount(c) + (IF YieldsParseFailure(c) THEN 1 ELSE 0) = 1

C7_Witness ==
  \E i \in ResponseCalls, j \in ResponseCalls :
    /\ calls[i].exchange.status = 429 /\ YieldsRateLimited(calls[i])
    /\ calls[j].exchange.status = 204 /\ ~calls[j].exchange.body.json
    /\ YieldsParseFailure(calls[j])

-----------------------------------------------------------------------------
(* Properties of fetchContributionStats, checked under SpecStats.          *)

\* the exchange carries a JSON object
HasData(x) ==
  /\ x.kind = "response" /\ ResponseOk(x) /\ x.body.json
  /\ x.body.value.kind = "object"

\* the body has the documented shape: a `total` map and a `contributions` array
WellFormedStats(x) ==
  /\ HasData(x)
  /\ x.body.value.total.kind = "object"
  /\ x.body.value.contributions.kind = "array"

\* the code reaches its streak computation: nothing before it threw
StreaksComputed(x) ==
  /\ HasData(x)
  /\ ~ObjectValuesThrows(x.body.value.total)
  /\ x.body.value.contributions.kind = "array"

\* the daily series of an exchange that has one, as the upstream sent it
ItemsOf(x) == x.body.value.contributions.items

AllCountsZero(s) == \A i \in 1..Len(s) : s[i].count = 0
AllCountsPositive(s) == \A i \in 1..Len(s) : s[i].count > 0

\* C2 as stated: whenever the request throws, the status is not OK, or the
\* body is missing or malformed (no `total` map, no `contributions` array),
\* fetchContributionStats returns exactly {0, 0, 0}
C2_MalformedGivesZeroStats ==
  (statsOut.ran /\ ~WellFormedStats(statsIn.exchange)) => statsOut.stats = ZeroStats

\* C8: a series whose counts are all zero, of any length and with or without
\* today's date in it, has longestStreak = currentStreak = 0
C8_AllZeroSeries ==
  (statsOut.ran /\ StreaksComputed(statsIn.exchange)
     /\ AllCountsZero(ItemsOf(statsIn.exchange)))
    => statsOut.stats.longestStreak = 0 /\ statsOut.stats.currentStreak = 0

C8_Witness ==
  /\ statsOut.ran /\ WellFormedStats(statsIn.exchange)
  /\ Len(ItemsOf(statsIn.exchange)) >= 2
  /\ AllCountsZero(ItemsOf(statsIn.exchange))
  /\ \E i \in 1..Len(ItemsOf(statsIn.exchange)) :
       ItemsOf(statsIn.exchange)[i].date = statsIn.today
  /\ statsOut.stats.longestStreak = 0 /\ statsOut.stats.currentStreak = 0

\* C9: a series of length N whose counts are all positive has
\* longestStreak = currentStreak = N
C9_AllPositiveSeries ==
  (statsOut.ran /\ StreaksComputed(statsIn.exchange)
     /\ AllCountsPositive(ItemsOf(statsIn.exchange)))
    => /\ statsOut.stats.longestStreak = Len(ItemsOf(statsIn.exchange))
       /\ statsOut.stats.currentStreak = Len(ItemsOf(statsIn.exchange))

C9_Witness ==
  /\ statsOut.ran /\ WellFormedStats(statsIn.exchange)
  /\ Len(ItemsOf(statsIn.exchange)) >= 2
  /\ AllCountsPositive(ItemsOf(statsIn.exchange))
  /\ statsOut.stats.longestStreak = Len(ItemsOf(statsIn.exchange))
  /\ statsOut.stats.currentStreak = Len(ItemsOf(statsIn.exchange))

\* the last entry that ends the backward scan: a zero-count entry whose date
\* is not today (0 when there is none)
LastBreak(s, today) ==
  LET breaks == {i \in 1..Len(s) : s[i].count = 0 /\ s[i].date # today}
  IN IF breaks = {} THEN 0 ELSE CHOOSE i \in breaks : \A j \in breaks : j <= i

\* the entries with a positive count after the last break
ScanBackward(s, today) ==
  Cardinality({j \in (LastBreak(s, today) + 1)..Len(s) : s[j].count > 0})

BrokenYesterday(d) ==
  <<[date |-> d - 2, count |-> 1], [date |-> d - 1, count |-> 0], [date |-> d, count |-> 0]>>
QuietToday(d) ==
  <<[date |-> d - 1, count |-> 1], [date |-> d, count |-> 0]>>

\* C10: currentStreak counts the positive entries met scanning the sorted
\* series backward, skipping a zero entry dated today and stopping at the
\* first zero entry not dated today; [(d-2,1),(d-1,0),(d,0)] gives 0 and
\* [(d-1,1),(d,0)] gives 1, with d today
C10_CurrentStreakScan ==
  (statsOut.ran /\ StreaksComputed(statsIn.exchange))
    => /\ statsOut.stats.currentStreak
            = ScanBackward(SortByDate(ItemsOf(statsIn.exchange)), statsIn.today)
       /\ ItemsOf(statsIn.exchange) = BrokenYesterday(statsIn.today)
            => statsOut.stats.currentStreak = 0
       /\ ItemsOf(statsIn.exchange) = QuietToday(statsIn.today)
            => statsOut.stats.currentStreak = 1

C10_Witness ==
  /\ statsOut.ran /\ WellFormedStats(statsIn.exchange)
  /\ ItemsOf(statsIn.exchange) = QuietToday(statsIn.today)
  /\ statsOut.stats.currentStreak = 1
  /\ FetchContributionStats(
       Response(200, "OK", JsonBody(StatsData(TotalMap(<<>>),
                                              ContribArray(BrokenYesterday(statsIn.today))))),
       statsIn.today).currentStreak = 0

\* the values of the per-year map of an exchange that has one
TotalValuesOf(x) == x.body.value.total.values

\* the sum of a sequence of numbers, taken from its last entry
RECURSIVE SumOf(_)
SumOf(values) ==
  IF values = <<>> THEN 0
  ELSE SumOf(SubSeq(values, 1, Len(values) - 1)) + values[Len(values)]

\* the same exchange with another daily series
WithSeries(x, s) ==
  Response(x.status, x.statusText,
           JsonBody(StatsData(x.body.value.total, ContribArray(s))))

\* the series one change away from s: one entry shorter, one entry longer,
\* or with the count of one entry changed
Shorter(s) == IF s = <<>> THEN {} ELSE {SubSeq(s, 1, Len(s) - 1), Tail(s)}
Longer(s) == {Append(s, d) : d \in Days}
Recounted(s) == {[s EXCEPT ![i].count = c] : i \in 1..Len(s), c \in Counts}
SeriesChanges(s) == Shorter(s) \cup Longer(s) \cup Recounted(s)

\* C11: for a body with a per-year total map and a daily series,
\* totalContributions is the sum of the map's values, and it stays the same
\* when the daily series is made shorter or longer or its counts are changed
C11_TotalFromMapOnly ==
  (statsOut.ran /\ WellFormedStats(statsIn.exchange))
    => /\ statsOut.stats.totalContributions = SumOf(TotalValuesOf(statsIn.exchange))
       /\ \A s \in SeriesChanges(ItemsOf(statsIn.exchange)) :
            FetchContributionStats(WithSeries(statsIn.exchange, s), statsIn.today)
                .totalContributions
              = statsOut.stats.totalContributions

C11_Witness ==
  /\ statsOut.ran /\ WellFormedStats(statsIn.exchange)
  /\ TotalValuesOf(statsIn.exchange) = <<1, 2>>
  /\ Len(ItemsOf(statsIn.exchange)) = 2
  /\ AllCountsPositive(ItemsOf(statsIn.exchange))
  /\ SumOf([i \in 1..2 |-> ItemsOf(statsIn.exchange)[i].count]) = 4
  /\ statsOut.stats.totalContributions = 3

\* C12 as stated: an empty daily series gives totalContributions = 0,
\* longestStreak = 0 and currentStreak = 0
C12_EmptySeriesAllZeros ==
  (statsOut.ran /\ StreaksComputed(statsIn.exchange)
     /\ ItemsOf(statsIn.exchange) = <<>>)
    => statsOut.stats = ZeroStats

\* C12 amended: an empty daily series gives longestStreak = 0 and
\* currentStreak = 0, and totalContributions is still the sum of the values
\* of data.total, which is 0 only when that sum is 0
C12_EmptySeriesZeroStreaks ==
  (statsOut.ran /\ StreaksComputed(statsIn.exchange)
     /\ ItemsOf(statsIn.exchange) = <<>>)
    => /\ statsOut.stats.longestStreak = 0
       /\ statsOut.stats.currentStreak = 0
       /\ statsOut.stats.totalContributions
            = SumOf(ObjectValues(statsIn.exchange.body.value.total))

C12_Witness ==
  /\ statsOut.ran /\ WellFormedStats(statsIn.exchange)
  /\ ItemsOf(statsIn.exchange) = <<>>
  /\ TotalValuesOf(statsIn.exchange) = <<4>>
  /\ statsOut.stats = [totalContributions |-> 4, longestStreak |-> 0, currentStreak |-> 0]

\* the lengths of the runs of consecutive entries with a positive count
RunLengths(s) ==
  {j - i + 1 : i \in 1..Len(s), j \in 1..Len(s)} \cap
  {n \in 1..Len(s) : \E i \in 1..(Len(s) - n + 1) :
                       \A k \in i..(i + n - 1) : s[k].count > 0}

LongestRun(s) ==
  IF RunLengths(s) = {} THEN 0
  ELSE CHOOSE n \in RunLengths(s) : \A m \in RunLengths(s) : m <= n

\* C24: longestStreak is the length of the longest run of consecutive
\* entries with count > 0 in the series sorted by date, a run that ends at
\* the last entry included; it is 0 when no count is positive and is never
\* more than the length of the series
C24_LongestIsLongestRun ==
  (statsOut.ran /\ StreaksComputed(statsIn.exchange))
    => LET sorted == SortByDate(ItemsOf(statsIn.exchange))
       IN /\ statsOut.stats.longestStreak = LongestRun(sorted)
          /\ statsOut.stats.longestStreak <= Len(sorted)
          /\ AllCountsZero(sorted) => statsOut.stats.longestStreak = 0

C24_Witness ==
  /\ statsOut.ran /\ WellFormedStats(statsIn.exchange)
  /\ ItemsOf(statsIn.exchange)
       = <<[date |-> 3, count |-> 2], [date |-> 1, count |-> 0], [date |-> 2, count |-> 1]>>
  /\ statsOut.stats.longestStreak = 2

\* no two entries of the series have the same date
UniqueDates(s) == \A i, j \in 1..Len(s) : i # j => s[i].date # s[j].date

\* the orders in which the upstream may deliver the entries of s
PermutationsOf(s) ==
  {[i \in 1..Len(s) |-> s[f[i]]] : f \in Permutations(1..Len(s))}

\* the entries of s in ascending order of date
AscendingOf(s) ==
  CHOOSE t \in PermutationsOf(s) :
    \A i, j \in 1..Len(t) : i < j => t[i].date < t[j].date

\* the two streaks of a record of statistics
StreaksOf(stats) == <<stats.longestStreak, stats.currentStreak>>

\* C25: for a series with unique dates, longestStreak and currentStreak are
\* the same for every order in which its entries are delivered, and are
\* those of the series in ascending order of date
C25_OrderIndependent ==
  (statsOut.ran /\ StreaksComputed(statsIn.exchange)
     /\ UniqueDates(ItemsOf(statsIn.exchange)))
    => /\ StreaksOf(statsOut.stats)
            = StreaksOf(FetchContributionStats(
                WithSeries(statsIn.exchange, AscendingOf(ItemsOf(statsIn.exchange))),
                statsIn.today))
       /\ StreaksOf(statsOut.stats)
            = <<LongestRun(AscendingOf(ItemsOf(statsIn.exchange))),
                ScanBackward(AscendingOf(ItemsOf(statsIn.exchange)), statsIn.today)>>
       /\ \A t \in PermutationsOf(ItemsOf(statsIn.exchange)) :
            StreaksOf(FetchContributionStats(WithSeries(statsIn.exchange, t), statsIn.today))
              = StreaksOf(statsOut.stats)

C25_Witness ==
  /\ statsOut.ran /\ WellFormedStats(statsIn.exchange)
  /\ ItemsOf(statsIn.exchange)
       = <<[date |-> 3, count |-> 1], [date |-> 1, count |-> 0], [date |-> 2, count |-> 1]>>
  /\ statsIn.today = 4
  /\ StreaksOf(statsOut.stats) = <<2, 2>>

\* C28 as stated: for every series with unique dates, with today's date
\* anywhere in it or absent, currentStreak <= longestStreak
C28_CurrentAtMostLongest ==
  (statsOut.ran /\ StreaksComputed(statsIn.exchange)
     /\ UniqueDates(ItemsOf(statsIn.exchange)))
    => statsOut.stats.currentStreak <= statsOut.stats.longestStreak

-----------------------------------------------------------------------------
(* Properties of fetchFullProfileData and handleAnalyze, checked under     *)
(* Spec.                                                                   *)

\* the profile fetch of the current aggregation failed
ProfileFailed == agg.pc = "done" /\ agg.user = Undefined
\* the repository-list fetch of the current aggregation failed
ReposFailed == IsRejected(agg.reposP)

AnalyzeInvoked == \E i \in 1..Len(log) : log[i] = "analyzeProfile"

\* C1: the aggregate fails exactly when the profile fetch or the
\* repository-list fetch fails, and then with that fetch's error; whatever
\* the statistics fetch and the README fetches do, it resolves once they
\* have all settled
C1_FailsIffLoadBearingFails ==
  /\ agg.pc = "done" =>
       /\ ~IsPending(agg.result)
       /\ IsRejected(agg.result) <=> (ProfileFailed \/ ReposFailed)
       /\ ReposFailed => agg.result = agg.reposP
  /\ agg.pc = "readmes" => \E i \in 1..Len(agg.readmeP) : IsPending(agg.readmeP[i])
  /\ agg.pc = "reposStats" => (IsPending(agg.reposP) \/ IsPending(agg.statsP))

C1_Witness ==
  /\ agg.pc = "done" /\ IsResolved(agg.result)
  /\ agg.result.value.stats = ZeroStats
  /\ Len(agg.result.value.repos) >= ReadmeCount
  /\ agg.failedReadmes = 1..ReadmeCount

\* C3: a failed README fetch does not abort the aggregation: the aggregate
\* resolves, that repository has readmeContent = null, and the repositories
\* returned are those of the list response, as many and in the same order
C3_ReadmeFailureKeepsList ==
  (agg.pc = "done" /\ agg.failedReadmes # {}) =>
    /\ IsResolved(agg.result)
    /\ Len(agg.result.value.repos) = Len(agg.reposP.value)
    /\ \A i \in 1..Len(agg.reposP.value) :
         agg.result.value.repos[i].id = agg.reposP.value[i].id
    /\ \A i \in agg.failedReadmes : agg.result.value.repos[i].readmeContent = Null

C3_Witness ==
  /\ agg.pc = "done" /\ IsResolved(agg.result)
  /\ agg.failedReadmes = {2}
  /\ Len(agg.result.value.repos) = 4
  /\ agg.result.value.repos[2].readmeContent = Null
  /\ agg.result.value.repos[1].readmeContent.is = "string"
  /\ agg.result.value.repos[1].id > agg.result.value.repos[2].id

\* C4: analyzeProfile is invoked only once the aggregate has resolved with a
\* non-empty repository list; a run whose aggregate failed or came back
\* empty is in ERROR with a message and has not invoked analyzeProfile
C4_AnalyzeOnlyAfterAggregate ==
  /\ AnalyzeInvoked =>
       /\ agg.pc = "done" /\ IsResolved(agg.result)
       /\ Len(agg.result.value.repos) > 0
  /\ state = "ANALYZING_GEMINI" => AnalyzeInvoked
  /\ (agg.pc = "done"
        /\ (IsRejected(agg.result) \/ Len(agg.result.value.repos) = 0)) =>
       /\ state = "ERROR"
       /\ pc = "idle"
       /\ error # Null /\ error.text # ""
       /\ ~AnalyzeInvoked

C4_Witness ==
  /\ agg.pc = "done" /\ ReposFailed /\ IsPending(agg.statsP)
  /\ state = "ERROR" /\ error = Str(RateLimitMessage)
  /\ ~AnalyzeInvoked

\* C5 as stated: fetchFullProfileData fails when the repository list is
\* empty, and never resolves with an empty repository list
C5_AggregatorRejectsEmpty ==
  agg.pc = "done" =>
    /\ (IsResolved(agg.reposP) /\ Len(agg.reposP.value) = 0) => IsRejected(agg.result)
    /\ IsResolved(agg.result) => Len(agg.result.value.repos) > 0

\* C5 amended: for an empty repository list fetchFullProfileData resolves,
\* with an empty list; it is its caller handleAnalyze that then fails with
\* the no-repositories error, ends in ERROR and does not call analyzeProfile
C5_CallerRejectsEmpty ==
  (agg.pc = "done" /\ IsResolved(agg.reposP) /\ Len(agg.reposP.value) = 0) =>
    /\ IsResolved(agg.result)
    /\ agg.result.value.repos = <<>>
    /\ state = "ERROR"
    /\ error = Str(NoReposMessage)
    /\ ~AnalyzeInvoked

C5_Witness ==
  /\ agg.pc = "done" /\ IsResolved(agg.result)
  /\ agg.result.value.repos = <<>>
  /\ agg.result.value.stats # ZeroStats
  /\ state = "ERROR" /\ error = Str(NoReposMessage)

-----------------------------------------------------------------------------
(* Properties of analyzeProfile, checked under Spec.                       *)

GenerateContentCalls == Cardinality({i \in 1..Len(log) : log[i] = "generateContent"})

\* C13: without an API credential analyzeProfile fails with the
\* missing-key error, and generateContent is not called
C13_NoKeyNoRequest ==
  (~apiKey /\ AnalyzeInvoked)
    => /\ analysisP = Rejected(NewError(MissingKeyMessage))
       /\ GenerateContentCalls = 0
       /\ modelReply = NoReply
       /\ pc = "idle" /\ state = "ERROR" /\ data = Null

C13_Witness ==
  /\ ~apiKey /\ AnalyzeInvoked
  /\ analysisP = Rejected(NewError(MissingKeyMessage))
  /\ error = Str(MissingKeyMessage)
  /\ state = "ERROR"

\* the reply is JSON text without some required property of analysisSchema
OmitsRequired(r) ==
  /\ r.kind = "response" /\ r.text.kind = "json"
  /\ ~(RequiredFields \subseteq r.text.fields)

\* C14 as stated: when the model's text is well-formed JSON that omits
\* repoAnalyses or another required property, analyzeProfile fails and no
\* partially populated analysis is returned
C14_MissingFieldFails ==
  OmitsRequired(modelReply)
    => IsRejected(analysisP) /\ state # "COMPLETE" /\ data = Null

\* the reply makes generateContent throw, or has no text, or text that is
\* not JSON
FailingReply(r) ==
  \/ r.kind = "throws"
  \/ r.kind = "response" /\ r.text.kind \in {"empty", "notJson"}

\* C15: when generateContent throws, returns no text or returns text that
\* is not JSON, analyzeProfile rejects (with the thrown error, the
\* no-response error or the parser's error), no analysis is stored, and
\* generateContent was called exactly once
C15_FailureNotRetried ==
  FailingReply(modelReply)
    => /\ IsRejected(analysisP)
       /\ modelReply.kind = "throws" => analysisP.error = modelReply.error
       /\ (modelReply.kind = "response" /\ modelReply.text.kind = "empty")
            => analysisP.error = NewError(NoResponseMessage)
       /\ (modelReply.kind = "response" /\ modelReply.text.kind = "notJson")
            => analysisP.error = JsonSyntaxError
       /\ GenerateContentCalls = 1
       /\ pc = "idle" /\ state = "ERROR" /\ data = Null

C15_Witness ==
  /\ modelReply = ModelText(NotJsonText)
  /\ analysisP = Rejected(JsonSyntaxError)
  /\ GenerateContentCalls = 1
  /\ state = "ERROR"
  /\ error = Str(JsonSyntaxError.message)

-----------------------------------------------------------------------------
(* Properties of the requests of one aggregation, checked under Spec.      *)

Min(a, b) == IF a <= b THEN a ELSE b

\* the README requests issued so far, in the order they were issued
ReadmeRequests == SelectSeq(agg.requests, LAMBDA q : q.op = "readme")

\* the aggregation has got past its first Promise.all
ReposAndStatsJoined == IsResolved(agg.reposP) /\ IsResolved(agg.statsP)

\* C16: the requests of one aggregation come in three stages: only the
\* profile request until the profile has arrived (and no other if it fails);
\* then the repository-list and statistics requests together; README
\* requests only once both of those have completed; and the aggregate
\* resolves only when every README callback has settled
C16_ThreeStages ==
  /\ agg.pc = "none" => agg.requests = <<>>
  /\ (agg.pc # "none" /\ agg.user = Undefined) => agg.requests = <<Request("profile")>>
  /\ agg.user # Undefined
       => /\ Len(agg.requests) >= 3
          /\ SubSeq(agg.requests, 1, 3)
               = <<Request("profile"), Request("repos"), Request("stats")>>
          /\ \A i \in 4..Len(agg.requests) : agg.requests[i].op = "readme"
  /\ ReadmeRequests # <<>> => ReposAndStatsJoined
  /\ ~ReposAndStatsJoined => agg.readmeP = <<>>
  /\ IsResolved(agg.result)
       => /\ ReposAndStatsJoined
          /\ Len(agg.readmeP) = Len(agg.reposP.value)
          /\ \A i \in 1..Len(agg.readmeP) : IsResolved(agg.readmeP[i])

C16_Witness ==
  /\ IsResolved(agg.result)
  /\ agg.requests = <<Request("profile"), Request("repos"), Request("stats"),
                       ReadmeRequest(1), ReadmeRequest(2)>>
  /\ \A i \in 1..2 : IsResolved(agg.readmeP[i])

\* C17: once the repository list of n repositories and the statistics have
\* arrived, README requests have been issued for exactly the indices
\* 1..min(3, n), in that order, and never for a later index; in the
\* aggregate the first min(3, n) repositories carry what their README
\* request gave and the others are the repositories as the list had them
C17_FirstThreeReadmes ==
  /\ \A i \in 1..Len(agg.requests) :
       agg.requests[i].op = "readme" => agg.requests[i].index <= ReadmeCount
  /\ ReposAndStatsJoined
       => LET repos == agg.reposP.value
              first == Min(ReadmeCount, Len(repos))
          IN /\ ReadmeRequests = [i \in 1..first |-> ReadmeRequest(i)]
             /\ IsResolved(agg.result)
                  => /\ Len(agg.result.value.repos) = Len(repos)
                     /\ \A i \in 1..Len(repos) :
                          IF i <= first
                            THEN /\ agg.result.value.repos[i].id = repos[i].id
                                 /\ agg.result.value.repos[i].readmeContent # Undefined
                                 /\ agg.result.value.repos[i].readmeContent # Null
                                      => agg.result.value.repos[i].readmeContent.text.of
                                           = repos[i].id
                            ELSE agg.result.value.repos[i] = repos[i]

C17_Witness ==
  /\ IsResolved(agg.result)
  /\ agg.reposP.value = Descending(4)
  /\ ReadmeRequests = <<ReadmeRequest(1), ReadmeRequest(2), ReadmeRequest(3)>>
  /\ agg.result.value.repos[1].readmeContent # Null
  /\ agg.result.value.repos[1].readmeContent.text.of = 4
  /\ agg.result.value.repos[4] = Repo(1)

\* the README values settled so far, and those of the aggregate and of the
\* data the App stores
AttachedReadmes ==
  {agg.readmeP[i].value.readmeContent :
     i \in {k \in 1..Len(agg.readmeP) : k <= ReadmeCount /\ IsResolved(agg.readmeP[k])}}
  \cup (IF IsResolved(agg.result)
          THEN {agg.result.value.repos[i].readmeContent :
                  i \in 1..Min(ReadmeCount, Len(agg.result.value.repos))}
          ELSE {})
  \cup (IF data # Null
          THEN {data.repos[i].readmeContent : i \in 1..Min(ReadmeCount, Len(data.repos))}
          ELSE {})

\* C26: every README excerpt the aggregator attaches is null or a string of
\* at most 2000 characters; it is null whenever the README response is not
\* base64-encoded, has an empty content, cannot be decoded, or the request
\* failed
C26_ReadmeNullOrCapped ==
  /\ \A readme \in AttachedReadmes :
       \/ readme = Null
       \/ readme.is = "string" /\ readme.text.length <= ReadmeLimit
  /\ \A i \in agg.failedReadmes \cup agg.unusableReadmes :
       /\ IsResolved(agg.readmeP[i]) /\ agg.readmeP[i].value.readmeContent = Null
       /\ IsResolved(agg.result) => agg.result.value.repos[i].readmeContent = Null
  /\ \A i \in 1..Len(agg.readmeP) :
       (i <= ReadmeCount /\ IsResolved(agg.readmeP[i])
          /\ i \notin agg.failedReadmes \cup agg.unusableReadmes)
         => agg.readmeP[i].value.readmeContent # Null
  /\ agg.pc = "readmes"
       => \A i \in {k \in 1..Len(agg.readmeP) : IsPending(agg.readmeP[k])} :
            \A x \in ReadmeExchanges(agg.reposP.value[i]) :
              ReadmeCase(x) # "decoded" => GetRepoReadme(x) = Resolved(Null)

C26_Witness ==
  /\ IsResolved(agg.result)
  /\ Len(agg.result.value.repos) >= ReadmeCount
  /\ agg.failedReadmes = {1}
  /\ agg.unusableReadmes = {2}
  /\ agg.result.value.repos[1].readmeContent = Null
  /\ agg.result.value.repos[2].readmeContent = Null
  /\ agg.result.value.repos[3].readmeContent
       = Str(Text(agg.reposP.value[3].id, ReadmeLimit))

\* C27: whichever of the repository list and the statistics arrives first,
\* and in whatever order the README requests are answered, the aggregate
\* has the user, the statistics and the repositories each from its own
\* request, the repositories in the order of the list response, and the
\* README fetched for the repository at an index attached to that
\* repository and to no other
C27_CompletionOrderIrrelevant ==
  /\ \A i \in 1..Len(agg.readmeP) :
       IsResolved(agg.readmeP[i])
         => /\ agg.readmeP[i].value.id = agg.reposP.value[i].id
            /\ agg.readmeP[i].value.readmeContent \notin {Null, Undefined}
                 => agg.readmeP[i].value.readmeContent.text.of = agg.reposP.value[i].id
  /\ IsResolved(agg.result)
       => /\ agg.result.value.user = agg.user
          /\ agg.result.value.stats = agg.statsP.value
          /\ agg.result.value.repos
               = [i \in 1..Len(agg.reposP.value) |-> agg.readmeP[i].value]
          /\ [i \in 1..Len(agg.reposP.value) |-> agg.result.value.repos[i].id]
               = [i \in 1..Len(agg.reposP.value) |-> agg.reposP.value[i].id]
          /\ \A i, j \in 1..Len(agg.reposP.value) :
               (agg.result.value.repos[i].readmeContent \notin {Null, Undefined}
                  /\ agg.result.value.repos[i].readmeContent.text.of = agg.reposP.value[j].id)
                 => i = j

C27_Witness ==
  /\ IsResolved(agg.result)
  /\ agg.statsFirst /\ agg.overtaken
  /\ agg.reposP.value = Descending(4)
  /\ \A i \in 1..ReadmeCount :
       agg.result.value.repos[i].readmeContent = Str(Text(5 - i, 5))
  /\ agg.result.value.repos[4] = Repo(1)
  /\ agg.result.value.stats # ZeroStats

-----------------------------------------------------------------------------
(* Properties of the ChatWidget, checked under SpecChat.                   *)

\* the chunks of a stream put together in the order they arrived
RECURSIVE Concat(_)
Concat(chunks) ==
  IF chunks = <<>> THEN <<>> ELSE Head(chunks) \o Concat(Tail(chunks))

\* the last handleSend run failed and no other has been started since
FailedSend == SendAt("failed")

\* C18: after a send whose sendMessageStream call or stream threw, the last
\* message is the model's apology, the reply text received before the throw
\* is the message before it, chatSession.current is the session the send
\* used, isLoading is false, and nothing bars the next send (a session
\* exists and the widget is not loading)
C18_FailedSendKeepsSession ==
  FailedSend
    => /\ messages[Len(messages)] = Message("model", ApologyText)
       /\ Concat(LastSend.chunks) # <<>>
            => /\ Len(messages) >= 2
               /\ messages[Len(messages) - 1] = Message("model", Concat(LastSend.chunks))
       /\ chatSession # Null
       /\ chatSession = LastSend.session
       /\ isLoading = FALSE
       /\ \A k \in 1..Len(sent) : sent[k].session = chatSession

C18_Witness ==
  /\ Len(sent) = 2
  /\ sent[1].status = "failed"
  /\ sent[1].chunks = << <<"x">> >>
  /\ messages[3] = Message("model", <<"x">>)
  /\ messages[4] = Message("model", ApologyText)
  /\ messages[5] = Message("user", sent[2].message)
  /\ sent[2].session = sent[1].session

\* C19: ai.chats.create is called at most once; the session, once set, is
\* the one that first call made, with the context of the props of that
\* time; the greeting stays the first message and the messages of every
\* send stay after it, whatever opening, closing, sending or new props follow
C19_SessionCreatedOnce ==
  /\ created <= 1
  /\ chatSession = Null => created = 0 /\ messages = <<>> /\ sent = <<>>
  /\ chatSession # Null
       => /\ created = 1
          /\ chatSession = Session(1, chatSession.context)
          /\ Len(messages) >= 1 + 2 * Len(sent)
          /\ messages[1] = Greeting(chatSession.context)
          /\ \A k \in 1..Len(sent) : sent[k].session = chatSession

C19_Witness ==
  /\ chatSession # Null
  /\ created = 1
  /\ isOpen
  /\ props # chatSession.context
  /\ Len(sent) = 2
  /\ messages[1] = Greeting(chatSession.context)

\* the messages the model put after the user's message of a send
ReplyOf(send) ==
  IF send.status = "failed"
    THEN IF Concat(send.chunks) = <<>>
           THEN <<Message("model", ApologyText)>>
           ELSE <<Message("model", Concat(send.chunks)), Message("model", ApologyText)>>
    ELSE <<Message("model", Concat(send.chunks))>>

\* the history after the first n sends
RECURSIVE History(_)
History(n) ==
  IF n = 0 THEN <<Greeting(chatSession.context)>>
  ELSE History(n - 1) \o <<Message("user", sent[n].message)>> \o ReplyOf(sent[n])

Streaming == sent # <<>> /\ LastSend.status \in {"stream", "done"}

\* C20: while a reply streams and when it has ended, the last message is the
\* model's and its text is the chunks received so far put together in
\* arrival order (empty chunks add nothing), and the messages before it are
\* the history as it was when the send began
C20_ChunksAppendInOrder ==
  Streaming
    => /\ messages[Len(messages)] = Message("model", Concat(LastSend.chunks))
       /\ LastSend.fullText = Concat(LastSend.chunks)
       /\ messages = History(Len(sent))
       /\ SubSeq(messages, 1, Len(messages) - 2) = History(Len(sent) - 1)

C20_Witness ==
  /\ Len(sent) = 2
  /\ sent[2].status = "done"
  /\ sent[2].chunks = << <<"x">>, <<"y">> >>
  /\ messages[Len(messages)] = Message("model", <<"x", "y">>)
  /\ sent[1].status = "done"
  /\ messages[3] = Message("model", Concat(sent[1].chunks))

\* a handleSend run is awaiting sendMessageStream or reading its stream
SendInFlight == SendAt("request") \/ SendAt("stream")

\* isLoading is true exactly while a send is awaiting or streaming
LoadingWhileInFlight == isLoading <=> SendInFlight

\* C21: isLoading becomes true when a send is accepted, stays true while the
\* request is awaited or the reply streams, and is false once the stream has
\* ended or the failure has been caught; nothing else ends a send; and with
\* an upstream that ends or breaks every stream, every send in flight
\* leads to a state that is not loading
C21_SendReturnsToReady ==
  /\ []LoadingWhileInFlight
  /\ [][isLoading /\ ~isLoading'
          => /\ LastSend.status \in {"request", "stream"}
             /\ sent' = [sent EXCEPT ![Len(sent)].status = sent'[Len(sent)].status]
             /\ sent'[Len(sent)].status \in {"done", "failed"}]_allVars
  /\ SendInFlight ~> (~isLoading /\ ~SendInFlight)

C21_Witness ==
  /\ Len(sent) = 2
  /\ sent[1].status = "failed"
  /\ sent[2].status = "done"
  /\ sent[2].chunks # <<>>
  /\ ~isOpen
  /\ ~isLoading

-----------------------------------------------------------------------------
(* Properties of a whole run of handleAnalyze, checked under Spec.         *)

\* how many requests of the current run are of the kind `op`
RequestCount(op) == Len(SelectSeq(agg.requests, LAMBDA q : q.op = op))

AnalyzeProfileCalls == Cardinality({i \in 1..Len(log) : log[i] = "analyzeProfile"})

\* the requests of one run: at most one of each kind, README requests for
\* distinct indices among the first three, and one model call
AtMostOnceEach ==
  /\ RequestCount("profile") <= 1
  /\ RequestCount("repos") <= 1
  /\ RequestCount("stats") <= 1
  /\ RequestCount("readme") <= ReadmeCount
  /\ \A i, j \in 1..Len(agg.requests) :
       (i # j /\ agg.requests[i].op = "readme" /\ agg.requests[j].op = "readme")
         => agg.requests[i].index # agg.requests[j].index
  /\ AnalyzeProfileCalls <= 1
  /\ GenerateContentCalls <= 1

\* the step begins the requests of a run anew
StartsRequests ==
  /\ agg'.requests # <<>>
  /\ \/ Len(agg'.requests) < Len(agg.requests)
     \/ SubSeq(agg'.requests, 1, Len(agg.requests)) # agg.requests

\* C22: within one run of handleAnalyze, whatever the answers, there is at
\* most one profile request, one repository-list request, one statistics
\* request, one README request for each of the first three repositories and
\* one model call, made in one step of the run; a request that has been
\* issued is only ever asked again by a submit made while no run is in
\* flight, which starts a new run
C22_NoAutomaticRetry ==
  /\ []AtMostOnceEach
  /\ [][StartsRequests
          => /\ pc = "idle" /\ state \in {"IDLE", "ERROR"}
             /\ state' = "FETCHING_GITHUB"
             /\ agg'.requests = <<Request("profile")>>
             /\ log' = <<>>]_allVars
  /\ [][(log' # log /\ log' # <<>>) => log = <<>>]_allVars

C22_Witness ==
  /\ pc = "idle" /\ state = "ERROR"
  /\ modelReply = ModelThrows("Service unavailable")
  /\ agg.failedReadmes = {1, 2, 3}
  /\ agg.requests = <<Request("profile"), Request("repos"), Request("stats"),
                       ReadmeRequest(1), ReadmeRequest(2), ReadmeRequest(3)>>
  /\ AnalyzeProfileCalls = 1 /\ GenerateContentCalls = 1

\* the record handleAnalyze stores: what the aggregate and analyzeProfile of
\* the current run resolved with
DataOfRun ==
  [is |-> "object",
   user |-> agg.result.value.user,
   repos |-> agg.result.value.repos,
   analysis |-> analysisP.value,
   stats |-> agg.result.value.stats]

\* the handle the current run was started with is the one in the input
RunIsOfInput ==
  /\ ExtractUsername(username) # Null
  /\ agg.username = ExtractUsername(username).text

\* C23: handleReset leaves the state IDLE with the data, the error and the
\* username cleared; a run begins with a new aggregation and no analysis;
\* and the data shown in COMPLETE is made of what the aggregate and the
\* analysis of the current run resolved with, for the handle in the input
C23_ResetDiscards ==
  /\ [][(state = "COMPLETE" /\ state' # "COMPLETE")
          => /\ state' = "IDLE"
             /\ data' = Null /\ error' = Null /\ username' = <<>>]_allVars
  /\ [][(state # "FETCHING_GITHUB" /\ state' = "FETCHING_GITHUB")
          => /\ agg' = StartAggregate(ExtractUsername(username).text)
             /\ analysisP' = NotCalled /\ modelReply' = NoReply
             /\ data' = Null /\ error' = Null]_allVars
  /\ [](state = "COMPLETE"
          => /\ IsResolved(agg.result) /\ IsResolved(analysisP)
             /\ data = DataOfRun
             /\ RunIsOfInput
             /\ data.user = [login |-> agg.username])

C23_Witness ==
  /\ wasReset
  /\ state = "COMPLETE"
  /\ data = DataOfRun
  /\ Len(data.repos) = 2 /\ data.repos[1].id = 2 /\ data.repos[2].id = 1
  /\ data.analysis = [fields |-> RequiredFields]
  /\ error = Null

\* the names of the fields of the record the results view is given
DataFields == {"is", "user", "repos", "analysis", "stats"}

\* C29: the stored data is non-null exactly when the state is COMPLETE, and
\* in ERROR there is an error message; the data of COMPLETE, which is what
\* the results view shows, is a record of user, repos, analysis and stats,
\* all four of the run that has just ended
C29_DataIffComplete ==
  /\ data # Null <=> state = "COMPLETE"
  /\ state = "ERROR" => (error # Null /\ error.is = "string" /\ error.text # "")
  /\ state = "COMPLETE"
       => /\ error = Null /\ pc = "idle"
          /\ DOMAIN data = DataFields
          /\ data.user = agg.user /\ data.user # Undefined
          /\ data.repos = [i \in 1..Len(agg.readmeP) |-> agg.readmeP[i].value]
          /\ data.repos # <<>>
          /\ data.stats = agg.statsP.value
          /\ modelReply.kind = "response" /\ data.analysis = AnalysisOf(modelReply).value

C29_Witness ==
  /\ wasReset
  /\ state = "ERROR" /\ error = Str(UnexpectedMessage) /\ data = Null
  /\ modelReply = ModelThrows("")
  /\ IsResolved(agg.result)

\* a run of handleAnalyze is in flight
InFlight == pc # "idle"

\* the changes of state a run and a reset make
RunTransitions ==
  {<<"IDLE", "FETCHING_GITHUB">>, <<"ERROR", "FETCHING_GITHUB">>,
   <<"FETCHING_GITHUB", "ERROR">>, <<"FETCHING_GITHUB", "ANALYZING_GEMINI">>,
   <<"ANALYZING_GEMINI", "COMPLETE">>, <<"ANALYZING_GEMINI", "ERROR">>,
   <<"COMPLETE", "IDLE">>}

\* C30: at most one run is in flight: a run is in flight exactly in
\* FETCHING_GITHUB and ANALYZING_GEMINI, no run begins while one is in
\* flight, a run in flight keeps its handle and its aggregation, and the
\* state only moves IDLE|ERROR -> FETCHING_GITHUB -> (ERROR |
\* ANALYZING_GEMINI -> (COMPLETE | ERROR)), and COMPLETE -> IDLE by a reset
C30_OneRunInFlight ==
  /\ [](/\ pc = "aggregate" <=> state = "FETCHING_GITHUB"
        /\ pc = "analyze" <=> state = "ANALYZING_GEMINI"
        /\ pc \in {"idle", "aggregate", "analyze"}
        /\ pc = "aggregate" => (agg.pc # "none" /\ IsPending(agg.result))
        /\ pc = "analyze" => (IsResolved(agg.result) /\ IsPending(analysisP)))
  /\ [][state' # state => <<state, state'>> \in RunTransitions]_allVars
  /\ [][(pc' = "aggregate" /\ (pc # "aggregate" \/ Len(agg'.requests) < Len(agg.requests)))
          => /\ ~InFlight /\ state \in {"IDLE", "ERROR"}
             /\ agg' = StartAggregate(ExtractUsername(username).text)]_allVars
  /\ [][InFlight
          => /\ username' = username
             /\ agg'.username = agg.username
             /\ Len(agg'.requests) >= Len(agg.requests)
             /\ SubSeq(agg'.requests, 1, Len(agg.requests)) = agg.requests]_allVars

C30_Witness ==
  /\ wasReset
  /\ pc = "analyze" /\ state = "ANALYZING_GEMINI"
  /\ data = Null /\ error = Null
  /\ Len(agg.requests) = 3 + ReadmeCount

====
